---- MODULE Spec2Model ----
(***************************************************************************)
(* GrovQuick dashboard (src/app.py): a Streamlit script that is re-run     *)
(* from top to bottom on every widget interaction.  The state is the CSV   *)
(* on disk, the st.cache_data store of load_data, the widget values of the *)
(* session, and what the last run of the script computed.                  *)
(*                                                                         *)
(* Numbers.  pandas/numpy floats are modelled as exact rationals plus the  *)
(* IEEE special values NaN, +inf and -inf (binary rounding of float64 and  *)
(* the sign of zero are not modelled).  Python ints (len(...)) stay        *)
(* integers, and a Python int division by zero is an exception.            *)
(***************************************************************************)
EXTENDS Integers, Sequences, FiniteSets, TLC

\* A second browser session on the same server: its widget values and what
\* its last run computed (the first session's state is declared with the
\* script, below).
VARIABLE other

\* ------------------------------------------------------------------ bounds

\* Largest number of data rows of the CSV.
MaxRows == 2

\* ----------------------------------------------------------------- numbers

Abs(n) == IF n < 0 THEN -n ELSE n

Sign(n) == IF n < 0 THEN -1 ELSE IF n > 0 THEN 1 ELSE 0

RECURSIVE GCD(_, _)
GCD(a, b) == IF b = 0 THEN a ELSE GCD(b, a % b)

\* The finite value n/d (d # 0), in lowest terms with a positive denominator.
Norm(n, d) ==
    LET g == GCD(Abs(n), Abs(d))
        s == IF d < 0 THEN -1 ELSE 1
    IN [k |-> "fin", n |-> (s * n) \div g, d |-> Abs(d) \div g]

I(n) == [k |-> "fin", n |-> n, d |-> 1]

NaN == [k |-> "nan", n |-> 0, d |-> 1]

Inf(s) == [k |-> "inf", n |-> s, d |-> 1]

IsNaN(x) == x.k = "nan"

IsFinite(x) == x.k = "fin"

RNeg(x) == IF x.k = "nan" THEN NaN ELSE [x EXCEPT !.n = -x.n]

\* float addition
RAdd(a, b) ==
    IF a.k = "nan" \/ b.k = "nan" THEN NaN
    ELSE IF a.k = "inf" /\ b.k = "inf" THEN (IF a.n = b.n THEN a ELSE NaN)
    ELSE IF a.k = "inf" THEN a
    ELSE IF b.k = "inf" THEN b
    ELSE Norm(a.n * b.d + b.n * a.d, a.d * b.d)

RSub(a, b) == RAdd(a, RNeg(b))

\* float multiplication
RMul(a, b) ==
    IF a.k = "nan" \/ b.k = "nan" THEN NaN
    ELSE IF a.k = "inf" \/ b.k = "inf"
         THEN (IF a.n = 0 \/ b.n = 0 THEN NaN ELSE Inf(Sign(a.n) * Sign(b.n)))
    ELSE Norm(a.n * b.n, a.d * b.d)

\* float (numpy) division: x/0 is +-inf, 0/0 is NaN, never an exception.
RDiv(a, b) ==
    IF a.k = "nan" \/ b.k = "nan" THEN NaN
    ELSE IF a.k = "inf" /\ b.k = "inf" THEN NaN
    ELSE IF a.k = "inf" THEN Inf(IF b.n < 0 THEN -a.n ELSE a.n)
    ELSE IF b.k = "inf" THEN I(0)
    ELSE IF b.n = 0 THEN (IF a.n = 0 THEN NaN ELSE Inf(Sign(a.n)))
    ELSE Norm(a.n * b.d, a.d * b.n)

RLess(a, b) ==
    /\ a.k # "nan" /\ b.k # "nan"
    /\ IF a.k = "inf" THEN a.n < 0 /\ ~(b.k = "inf" /\ b.n < 0)
       ELSE IF b.k = "inf" THEN b.n > 0
       ELSE a.n * b.d < b.n * a.d

RECURSIVE RSum(_)
RSum(s) == IF s = <<>> THEN I(0) ELSE RAdd(Head(s), RSum(Tail(s)))

\* Series.mean(): skipna=True, NaN of an empty (or all-NaN) series.
Mean(s) ==
    LET kept == SelectSeq(s, LAMBDA x : ~IsNaN(x))
    IN IF kept = <<>> THEN NaN ELSE RDiv(RSum(kept), I(Len(kept)))

\* Series.count(): the number of non-NaN values.
Count(s) == Len(SelectSeq(s, LAMBDA x : ~IsNaN(x)))

\* n/d (d > 0) rounded to the nearest integer, halves to the even one.
RoundHalfEven(n, d) ==
    LET fl == n \div d
        rem == n % d
    IN IF 2 * rem < d THEN fl
       ELSE IF 2 * rem > d THEN fl + 1
       ELSE IF fl % 2 = 0 THEN fl ELSE fl + 1

\* .round(2): two decimals, halves to even; NaN and inf stay.
Round2(x) ==
    IF x.k # "fin" THEN x ELSE Norm(RoundHalfEven(x.n * 100, x.d), 100)

\* -------------------------------------------------------------- input data

Segments == {"Premium", "Regular", "Budget", "Occasional"}

\* The records a CSV row is drawn from: the four mapped segments and one
\* segment the CAC mapping does not know, two cities, two zones, order
\* frequencies 0..4, a zero-frequency row with and without returns.
SampleRows == {
    [City |-> "Pune", Zone |-> "North", CustomerSegment |-> "Premium",
     AvgOrderValue |-> I(450), OrderFrequency |-> 3, ReturnedOrders |-> 1,
     SatisfactionScore |-> I(4)],
    [City |-> "Pune", Zone |-> "South", CustomerSegment |-> "Regular",
     AvgOrderValue |-> Norm(81, 8), OrderFrequency |-> 1, ReturnedOrders |-> 0,
     SatisfactionScore |-> I(3)],
    [City |-> "Indore", Zone |-> "South", CustomerSegment |-> "Occasional",
     AvgOrderValue |-> I(450), OrderFrequency |-> 4, ReturnedOrders |-> 0,
     SatisfactionScore |-> I(5)],
    [City |-> "Pune", Zone |-> "North", CustomerSegment |-> "Corporate",
     AvgOrderValue |-> I(200), OrderFrequency |-> 2, ReturnedOrders |-> 0,
     SatisfactionScore |-> I(4)],
    [City |-> "Indore", Zone |-> "North", CustomerSegment |-> "Regular",
     AvgOrderValue |-> I(450), OrderFrequency |-> 0, ReturnedOrders |-> 0,
     SatisfactionScore |-> I(3)],
    [City |-> "Pune", Zone |-> "South", CustomerSegment |-> "Budget",
     AvgOrderValue |-> I(200), OrderFrequency |-> 0, ReturnedOrders |-> 1,
     SatisfactionScore |-> I(3)] }

\* The CSV's rows: CustomerID is the row's position.
RawTable(f) ==
    [i \in DOMAIN f |-> [CustomerID |-> i] @@ f[i]]

\* The tables: up to MaxRows records, no record taken twice, in any order.
Tables ==
    UNION {{RawTable(f) : f \in {g \in [1..n -> SampleRows] :
                                    \A i, j \in 1..n : g[i] = g[j] => i = j}} :
           n \in 0..MaxRows}

\* The file on disk: absent, not parseable as CSV, a CSV without one of the
\* columns load_data reads, or a CSV with these rows.
Files == {[kind |-> k, rows |-> <<>>] : k \in {"missing", "malformed", "no_column"}}
         \cup {[kind |-> "csv", rows |-> t] : t \in Tables}

\* --------------------------------------------------------------- load_data

None == [loaded |-> FALSE, exception |-> "none", rows |-> <<>>]

Some(t) == [loaded |-> TRUE, exception |-> "none", rows |-> t]

\* load_data left by an exception: there is no return value.
Escaped(e) == [loaded |-> FALSE, exception |-> e, rows |-> <<>>]

\* df[name] = col: the column is added, or overwritten.
WithColumn(t, name, col) ==
    [i \in DOMAIN t |-> (name :> col[i]) @@ t[i]]

\* cac_map with the Regular and Budget amounts exchanged.
cac_map_exchanged == [s \in Segments |->
    CASE s = "Premium" -> 500
      [] s = "Regular" -> 200
      [] s = "Budget" -> 300
      [] s = "Occasional" -> 150]

\* The default segment -> CAC mapping of load_data.
cac_map == [s \in Segments |->
    CASE s = "Premium" -> 500
      [] s = "Regular" -> 300
      [] s = "Budget" -> 200
      [] s = "Occasional" -> 150]

\* Series.map(dict): a key the dict does not hold maps to NaN.
MapSegment(m, seg) == IF seg \in DOMAIN m THEN I(m[seg]) ELSE NaN

\* CLVOf with the product rounded to two decimals before it is stored.
CLVOfRounded(r) == Round2(RMul(r.AvgOrderValue, I(r.OrderFrequency)))

\* df['AvgOrderValue'] * df['OrderFrequency']
CLVOf(r) == RMul(r.AvgOrderValue, I(r.OrderFrequency))

\* df['ReturnedOrders'] / df['OrderFrequency']: element-wise float division.
ReturnRateOf(r) == RDiv(I(r.ReturnedOrders), I(r.OrderFrequency))

\* df['CLV'] - df['CAC']
ROIOf(r) == RSub(r.CLV, r.CAC)

\* df['CustomerSegment'].map(m)
CACOf(m, r) == MapSegment(m, r.CustomerSegment)

\* df['CLV'] = ...
WithCLV(t) == WithColumn(t, "CLV", [i \in DOMAIN t |-> CLVOf(t[i])])

\* df['ReturnRate'] = ...
WithReturnRate(t) ==
    WithColumn(t, "ReturnRate", [i \in DOMAIN t |-> ReturnRateOf(t[i])])

\* df['CAC'] = df['CustomerSegment'].map(m)
WithCAC(t, m) == WithColumn(t, "CAC", [i \in DOMAIN t |-> CACOf(m, t[i])])

\* df['ROI'] = df['CLV'] - df['CAC']
WithROI(t) == WithColumn(t, "ROI", [i \in DOMAIN t |-> ROIOf(t[i])])

\* The four computed columns, in the order load_data adds them.
AddComputedColumns(t) ==
    WithROI(WithCAC(WithReturnRate(WithCLV(t)), cac_map))

\* What the try block raises: pd.read_csv on an absent or unparseable file,
\* df['AvgOrderValue'] (and the like) on a table without that column.
ExceptionOf(f) ==
    CASE f.kind = "missing" -> "FileNotFoundError"
      [] f.kind = "malformed" -> "ParserError"
      [] f.kind = "no_column" -> "KeyError"
      [] OTHER -> "none"

\* load_data's body: None on FileNotFoundError, any other exception leaves
\* the function, else the derived table.
load_data(f) ==
    IF ExceptionOf(f) = "FileNotFoundError" THEN None
    ELSE IF ExceptionOf(f) # "none" THEN Escaped(ExceptionOf(f))
    ELSE Some(AddComputedColumns(f.rows))

NoCache == [filled |-> FALSE, val |-> None]

\* CachedLoad that never stores: every call runs load_data's body.
CachedLoadNoStore(c, f) ==
    [val |-> load_data(f), cache |-> c, miss |-> TRUE]

\* @st.cache_data: the body runs on a miss and its return value (None too)
\* is stored, an exception is not; a hit returns a fresh copy of the stored
\* value.  miss: the body ran, so the CSV was read (or the read was tried).
CachedLoad(c, f) ==
    IF c.filled THEN [val |-> c.val, cache |-> c, miss |-> FALSE]
    ELSE LET v == load_data(f)
         IN [val |-> v,
             cache |-> IF v.exception # "none" THEN c
                       ELSE [filled |-> TRUE, val |-> v],
             miss |-> TRUE]

\* ------------------------------------------------------------------- pages

Pages == {"Introduction", "Executive Summary", "Data Exploration / EDA",
          "Funnel Analysis", "ROI & Segmentation", "Strategies & BMC",
          "Simulated Impact", "Limitations & Conclusion"}

Column(t, name) == [i \in DOMAIN t |-> t[i][name]]

IntColumn(t, name) == [i \in DOMAIN t |-> I(t[i][name])]

\* df[mask]: the rows whose mask entry is true, in order.
RECURSIVE Filter(_, _)
Filter(t, mask) ==
    IF t = <<>> THEN <<>>
    ELSE (IF Head(mask) THEN <<Head(t)>> ELSE <<>>)
             \o Filter(Tail(t), Tail(mask))

\* df[name] == v
Eq(t, name, v) == [i \in DOMAIN t |-> t[i][name] = v]

\* The distinct values of a column.
Unique(t, name) == {t[i][name] : i \in DOMAIN t}

NoView == [page |-> "none"]

\* StopGuard without the st.stop(): the run always goes on.
StopGuardNever(dfv) == FALSE

\* "if df is None: st.stop()"
StopGuard(dfv) == ~dfv.loaded

\* Slide 1
Introduction(df) ==
    [status |-> "ok", df |-> df,
     view |-> [page |-> "Introduction", total_customers |-> Len(df)]]

\* The group keys in ascending order, as groupby(sort=True) lists them.
KeyOrder == <<"Budget", "Corporate", "Indore", "North", "Occasional",
              "Premium", "Pune", "Regular", "South">>

\* The index of df.groupby(key): the key values that occur, ascending.
GroupIndex(t, key) == SelectSeq(KeyOrder, LAMBDA k : k \in Unique(t, key))

\* groupby(key)[name].mean(): one entry per key value that occurs.
GroupMean(t, key, name) ==
    [g \in Unique(t, key) |->
        Mean(Column(Filter(t, Eq(t, key, g)), name))]

\* groupby(key)[name].mean() of an integer column.
GroupMeanInt(t, key, name) ==
    [g \in Unique(t, key) |->
        Mean(IntColumn(Filter(t, Eq(t, key, g)), name))]

\* The values of a series, in index order.
RECURSIVE ValuesOf(_, _)
ValuesOf(index, val) ==
    IF index = <<>> THEN <<>>
    ELSE <<val[Head(index)]>> \o ValuesOf(Tail(index), val)

\* The labels of a series ordered by descending value, NaN last; equal
\* values keep their order.
SortedDesc(index, v) ==
    LET n == Len(index)
        Before(i, j) ==
            IF IsNaN(v[i]) THEN IsNaN(v[j]) /\ i < j
            ELSE IsNaN(v[j]) \/ RLess(v[j], v[i]) \/ (v[j] = v[i] /\ i < j)
        Rank(i) == 1 + Cardinality({j \in 1..n : Before(j, i)})
    IN [p \in 1..n |-> index[CHOOSE i \in 1..n : Rank(i) = p]]

\* sort_values(ascending=False): the sort of an array this short is an
\* insertion sort, so tied labels stay in index order.
SortValuesDesc(index, val) == SortedDesc(index, ValuesOf(index, val))

\* The first label whose value no non-NaN value exceeds; "none" without one.
FirstGreatest(index, v) ==
    LET best == {i \in DOMAIN index :
                    /\ ~IsNaN(v[i])
                    /\ \A j \in DOMAIN index : IsNaN(v[j]) \/ ~RLess(v[i], v[j])}
    IN IF best = {} THEN "none"
       ELSE index[CHOOSE i \in best : \A j \in best : i <= j]

\* The first label whose value is below no non-NaN value.
FirstLeast(index, v) ==
    LET best == {i \in DOMAIN index :
                    /\ ~IsNaN(v[i])
                    /\ \A j \in DOMAIN index : IsNaN(v[j]) \/ ~RLess(v[j], v[i])}
    IN IF best = {} THEN "none"
       ELSE index[CHOOSE i \in best : \A j \in best : i <= j]

\* Series.idxmax(): the first label, in index order, of the greatest
\* non-NaN value; "none" when there is no such value.
idxmax(index, val) == FirstGreatest(index, ValuesOf(index, val))

\* Series.idxmin(): the first label of the least non-NaN value.
idxmin(index, val) == FirstLeast(index, ValuesOf(index, val))

\* sorted.index[0]: IndexError ("none" here) on an empty index.
FirstLabel(index) == IF index = <<>> THEN "none" ELSE Head(index)

\* Slide 2: city_roi.index[0] raises IndexError on a table without rows.
ExecutiveSummary(df) ==
    LET avg_clv == Mean(Column(df, "CLV"))
        avg_cac == Mean(Column(df, "CAC"))
        city_roi == SortValuesDesc(GroupIndex(df, "City"),
                                   GroupMean(df, "City", "ROI"))
        segment_freq ==
            SortValuesDesc(GroupIndex(df, "CustomerSegment"),
                           GroupMeanInt(df, "CustomerSegment", "OrderFrequency"))
    IN [status |-> IF df = <<>> THEN "error" ELSE "ok", df |-> df,
        view |-> [page |-> "Executive Summary",
                  avg_clv |-> avg_clv, avg_cac |-> avg_cac,
                  clv_cac_ratio |-> RDiv(avg_clv, avg_cac),
                  avg_satisfaction |-> Mean(Column(df, "SatisfactionScore")),
                  top_city |-> FirstLabel(city_roi),
                  top_segment |-> FirstLabel(segment_freq)]]

\* Slide 3: the three selectboxes offer "All" and the values the table holds.
Options(df, name) == {"All"} \cup Unique(df, name)

\* ApplyFilters with each filter taken from df: the last one selected wins.
ApplyFiltersOnBase(df, city, segment, zone) ==
    LET f1 == IF city # "All" THEN Filter(df, Eq(df, "City", city)) ELSE df
        f2 == IF segment # "All"
              THEN Filter(df, Eq(df, "CustomerSegment", segment)) ELSE f1
    IN IF zone # "All" THEN Filter(df, Eq(df, "Zone", zone)) ELSE f2

\* "filtered_df = df.copy()" and the three filters, each applied to the copy.
ApplyFilters(df, city, segment, zone) ==
    LET f0 == df
        f1 == IF city # "All" THEN Filter(f0, Eq(f0, "City", city)) ELSE f0
        f2 == IF segment # "All"
              THEN Filter(f1, Eq(f1, "CustomerSegment", segment)) ELSE f1
    IN IF zone # "All" THEN Filter(f2, Eq(f2, "Zone", zone)) ELSE f2

\* DataFrame.describe() of one numeric column: count and mean skip NaN.
Describe(t, name) ==
    [count |-> Count(Column(t, name)), mean |-> Mean(Column(t, name))]

\* filtered_df.groupby('CustomerSegment').agg({...: 'mean'}).round(2)
SegmentMetrics(t) ==
    LET aov == GroupMean(t, "CustomerSegment", "AvgOrderValue")
        freq == GroupMeanInt(t, "CustomerSegment", "OrderFrequency")
        clv == GroupMean(t, "CustomerSegment", "CLV")
        sat == GroupMean(t, "CustomerSegment", "SatisfactionScore")
    IN [g \in Unique(t, "CustomerSegment") |->
          [AvgOrderValue |-> Round2(aov[g]), OrderFrequency |-> Round2(freq[g]),
           CLV |-> Round2(clv[g]), SatisfactionScore |-> Round2(sat[g])]]

DataExploration(df, city, segment, zone) ==
    LET filtered_df == ApplyFilters(df, city, segment, zone)
    IN [status |-> "ok", df |-> df,
        view |-> [page |-> "Data Exploration / EDA",
                  filtered_df |-> filtered_df,
                  segment_metrics |-> SegmentMetrics(filtered_df),
                  describe_ReturnRate |-> Describe(filtered_df, "ReturnRate")]]

\* A value a statement never assigned, because an earlier one raised.
Unset == [k |-> "unset", n |-> 0, d |-> 1]

\* Python's a / b on ints: ZeroDivisionError when b = 0.
Raised == [k |-> "raise", n |-> 0, d |-> 1]

PyDiv(a, b) == IF b = 0 THEN Raised ELSE Norm(a, b)

\* Between with both ends excluded.
BetweenExclusive(x, lo, hi) == lo < x /\ x < hi

\* Series.between(lo, hi): inclusive on both ends.
Between(x, lo, hi) == lo <= x /\ x <= hi

\* (a / b) * 100 and ((a - b) / a) * 100 on Python ints
Percent(q) == IF q = Raised THEN Raised ELSE RMul(q, I(100))

\* Statements run in order: those after the first one that raised never run.
RunInOrder(vals) ==
    [i \in DOMAIN vals |->
        IF \E j \in 1..(i - 1) : vals[j] = Raised THEN Unset ELSE vals[i]]

\* stage_1_order counting the customers with exactly one order.
stage_1_order_exactly_one(df) ==
    Len(Filter(df, [i \in DOMAIN df |-> df[i].OrderFrequency = 1]))

\* len(df[df['OrderFrequency'] >= 1])
stage_1_order(df) ==
    Len(Filter(df, [i \in DOMAIN df |-> df[i].OrderFrequency >= 1]))

\* A row label: a position of the default RangeIndex, or a group key.
Position(i) == [kind |-> "int", pos |-> i, key |-> ""]

KeyLabel(g) == [kind |-> "str", pos |-> 0, key |-> g]

\* df[mask].groupby('CustomerSegment').size(): a series labelled by the
\* segments that have a row in df[mask].
SizeBySegment(t) ==
    [index |-> {KeyLabel(g) : g \in Unique(t, "CustomerSegment")},
     val |-> [g \in Unique(t, "CustomerSegment") |->
                I(Len(Filter(t, Eq(t, "CustomerSegment", g))))]]

\* frame[column] = series: the series is aligned on the frame's row labels,
\* and a row whose label the series does not hold gets NaN.
AlignedValue(label, series) ==
    IF label \in series.index THEN series.val[label.key] ELSE NaN

\* fillna(0)
FillZero(x) == IF IsNaN(x) THEN I(0) ELSE x

\* "Funnel Analysis by Customer Segment": one row per segment in ascending
\* key order; reset_index() moves the segment into a column and labels the
\* rows 0, 1, ...
segment_funnel(df) ==
    LET keys == GroupIndex(df, "CustomerSegment")
        engaged ==
            SizeBySegment(Filter(df, [i \in DOMAIN df |->
                                        Between(df[i].OrderFrequency, 2, 3)]))
        loyal ==
            SizeBySegment(Filter(df, [i \in DOMAIN df |->
                                        df[i].OrderFrequency >= 4]))
    IN [k \in DOMAIN keys |->
          LET group == Filter(df, Eq(df, "CustomerSegment", keys[k]))
          IN [Segment |-> keys[k],
              Total |-> Count(IntColumn(group, "CustomerID")),
              Active |-> stage_1_order(group),
              Engaged |-> FillZero(AlignedValue(Position(k - 1), engaged)),
              Loyal |-> FillZero(AlignedValue(Position(k - 1), loyal))]]

\* Slide 4: stage counts, conversion rates, drop-off rates.
FunnelAnalysis(df) ==
    LET total_customers == Len(df)
        stage_1 == stage_1_order(df)
        stage_2_3_orders ==
            Len(Filter(df, [i \in DOMAIN df |->
                              Between(df[i].OrderFrequency, 2, 3)]))
        stage_4plus_orders ==
            Len(Filter(df, [i \in DOMAIN df |-> df[i].OrderFrequency >= 4]))
        rates == RunInOrder(<<
            Percent(PyDiv(stage_1, total_customers)),
            Percent(PyDiv(stage_2_3_orders, stage_1)),
            Percent(PyDiv(stage_4plus_orders, stage_2_3_orders)),
            Percent(PyDiv(stage_1 - stage_2_3_orders, stage_1)),
            Percent(PyDiv(stage_2_3_orders - stage_4plus_orders,
                          stage_2_3_orders)) >>)
    IN [status |-> IF \E i \in DOMAIN rates : rates[i] = Raised
                   THEN "error" ELSE "ok",
        df |-> df,
        view |-> [page |-> "Funnel Analysis",
                  total_customers |-> total_customers,
                  stage_1_order |-> stage_1,
                  stage_2_3_orders |-> stage_2_3_orders,
                  stage_4plus_orders |-> stage_4plus_orders,
                  conv_rate_1 |-> rates[1],
                  conv_rate_2 |-> rates[2],
                  conv_rate_3 |-> rates[3],
                  dropoff_1_2 |-> rates[4],
                  dropoff_2_3 |-> rates[5],
                  segment_funnel |->
                      IF \E i \in DOMAIN rates : rates[i] = Raised
                      THEN <<>> ELSE segment_funnel(df)]]

\* df_custom['CLV'] / df_custom['CAC']
ROIRatioOf(r) == RDiv(r.CLV, r.CAC)

\* RecalculateCustom with "df_custom = df": the columns are written to df.
RecalculateInPlace(df, cac_map_custom) ==
    LET c1 == WithColumn(df, "CAC",
                         [i \in DOMAIN df |-> CACOf(cac_map_custom, df[i])])
        c2 == WithColumn(c1, "ROI", [i \in DOMAIN df |-> ROIOf(c1[i])])
        c3 == WithColumn(c2, "ROI_Ratio", [i \in DOMAIN df |-> ROIRatioOf(c2[i])])
    IN [df |-> c3, df_custom |-> c3]

\* RecalculateCustom without the ROI line: ROI keeps its default-map value.
RecalculateStaleROI(df, cac_map_custom) ==
    LET c1 == WithColumn(df, "CAC",
                         [i \in DOMAIN df |-> CACOf(cac_map_custom, df[i])])
        c3 == WithColumn(c1, "ROI_Ratio", [i \in DOMAIN df |-> ROIRatioOf(c1[i])])
    IN [df |-> df, df_custom |-> c3]

\* df_custom['ROI_Ratio'] = df_custom['CLV'] / df_custom['CAC']
WithROIRatio(t) ==
    WithColumn(t, "ROI_Ratio", [i \in DOMAIN t |-> ROIRatioOf(t[i])])

\* RecalculateCustom with the CAC mapping kept in one process-wide place:
\* once another session has run, the values of its inputs are the ones in
\* force.
RecalculateProcessWide(df, cac_map_custom) ==
    [df |-> df,
     df_custom |->
        WithROIRatio(WithROI(WithCAC(df,
            IF other.status # "none" THEN other.w.cac_map_custom
            ELSE cac_map_custom)))]

\* RecalculateCustom with the mapped column completed by fillna(0): a
\* segment the inputs do not cover costs nothing.
RecalculateFillZero(df, cac_map_custom) ==
    [df |-> df,
     df_custom |->
        WithROIRatio(WithROI(WithColumn(df, "CAC",
            [i \in DOMAIN df |->
                IF df[i].CustomerSegment \in DOMAIN cac_map_custom
                THEN I(cac_map_custom[df[i].CustomerSegment]) ELSE I(0)])))]

\* "df_custom = df.copy()" and the three columns written to the copy; df is
\* the base table as the statements leave it.
RecalculateCustom(df, cac_map_custom) ==
    [df |-> df,
     df_custom |-> WithROIRatio(WithROI(WithCAC(df, cac_map_custom)))]

\* GroupCount counting the defined ReturnRate values of the group.
GroupCountDefined(group, name) == Count(Column(group, "ReturnRate"))

\* agg({name: 'count'}) of one group: its non-missing values.
GroupCount(group, name) == Count(IntColumn(group, name))

\* The rows of one group of df.groupby(key).
Group(t, key, g) == Filter(t, Eq(t, key, g))

\* One row of segment_roi: the aggregates of one segment's rows.
SegmentRoiRow(group) ==
    [CLV |-> Round2(Mean(Column(group, "CLV"))),
     CAC |-> Round2(Mean(Column(group, "CAC"))),
     ROI |-> Round2(Mean(Column(group, "ROI"))),
     ROI_Ratio |-> Round2(Mean(Column(group, "ROI_Ratio"))),
     CustomerID |-> GroupCount(group, "CustomerID")]

\* df_custom.groupby('CustomerSegment').agg({...}).round(2): the groups in
\* ascending key order; the columns keep the names they are aggregated from.
segment_roi(df_custom) ==
    [index |-> GroupIndex(df_custom, "CustomerSegment"),
     rows |-> [g \in Unique(df_custom, "CustomerSegment") |->
                 SegmentRoiRow(Group(df_custom, "CustomerSegment", g))]]

\* One row of city_roi or zone_roi, before it is rounded.
GroupRoiRow(group) ==
    [ROI |-> Mean(Column(group, "ROI")),
     CLV |-> Mean(Column(group, "CLV")),
     CustomerID |-> GroupCount(group, "CustomerID")]

\* .round(2) of such a row: the count is an integer and stays.
RoundRow(row) ==
    [ROI |-> Round2(row.ROI), CLV |-> Round2(row.CLV),
     CustomerID |-> row.CustomerID]

\* df_custom.groupby(key).agg({...}).sort_values('ROI', ascending=False)
\*     .round(2)
GroupRoi(df_custom, key) ==
    LET agg == [g \in Unique(df_custom, key) |->
                   GroupRoiRow(Group(df_custom, key, g))]
    IN [index |-> SortValuesDesc(GroupIndex(df_custom, key),
                                 [g \in DOMAIN agg |-> agg[g].ROI]),
        rows |-> [g \in DOMAIN agg |-> RoundRow(agg[g])]]

city_roi(df_custom) == GroupRoi(df_custom, "City")

zone_roi(df_custom) == GroupRoi(df_custom, "Zone")

\* One column of an aggregate, by group label.
AggColumn(agg, name) == [g \in DOMAIN agg.rows |-> agg.rows[g][name]]

\* Lines 671-673 and the page's outcome: idxmax/idxmin find no label when
\* every mean ROI is NaN (or there is no group at all), and the lookup of
\* the best group raises.
KeyInsights(cac_map_custom, r, by_segment, by_city) ==
    [status |-> IF \A i \in DOMAIN r.df_custom : IsNaN(r.df_custom[i].ROI)
                THEN "error" ELSE "ok",
     df |-> r.df,
     view |-> [page |-> "ROI & Segmentation",
               cac_map_custom |-> cac_map_custom,
               df_custom |-> r.df_custom,
               segment_roi |-> by_segment,
               city_roi |-> by_city,
               zone_roi |-> zone_roi(r.df_custom),
               best_roi_segment |->
                   idxmax(by_segment.index, AggColumn(by_segment, "ROI")),
               best_roi_city |->
                   idxmax(by_city.index, AggColumn(by_city, "ROI")),
               worst_roi_segment |->
                   idxmin(by_segment.index, AggColumn(by_segment, "ROI"))]]

\* The aggregates of the derived table.
RoiAnalysis(cac_map_custom, r) ==
    KeyInsights(cac_map_custom, r, segment_roi(r.df_custom),
                city_roi(r.df_custom))

\* Slide 5
RoiSegmentation(df, cac_map_custom) ==
    RoiAnalysis(cac_map_custom, RecalculateCustom(df, cac_map_custom))

\* Slide 7: the three presets.
Scenarios == {"Conservative", "Base Case", "Optimistic"}

\* scenarios_data with the Base Case order-frequency uplift left at the
\* Conservative value.
scenarios_data_flat == [s \in Scenarios |->
    CASE s = "Conservative" ->
            [cac_reduction |-> Norm(15, 100), retention_increase |-> Norm(15, 100),
             frequency_increase |-> Norm(25, 100), aov_increase |-> Norm(5, 100),
             timeline |-> 12]
      [] s = "Base Case" ->
            [cac_reduction |-> Norm(25, 100), retention_increase |-> Norm(25, 100),
             frequency_increase |-> Norm(25, 100), aov_increase |-> Norm(10, 100),
             timeline |-> 12]
      [] s = "Optimistic" ->
            [cac_reduction |-> Norm(35, 100), retention_increase |-> Norm(35, 100),
             frequency_increase |-> Norm(60, 100), aov_increase |-> Norm(15, 100),
             timeline |-> 12]]

scenarios_data == [s \in Scenarios |->
    CASE s = "Conservative" ->
            [cac_reduction |-> Norm(15, 100), retention_increase |-> Norm(15, 100),
             frequency_increase |-> Norm(25, 100), aov_increase |-> Norm(5, 100),
             timeline |-> 12]
      [] s = "Base Case" ->
            [cac_reduction |-> Norm(25, 100), retention_increase |-> Norm(25, 100),
             frequency_increase |-> Norm(40, 100), aov_increase |-> Norm(10, 100),
             timeline |-> 12]
      [] s = "Optimistic" ->
            [cac_reduction |-> Norm(35, 100), retention_increase |-> Norm(35, 100),
             frequency_increase |-> Norm(60, 100), aov_increase |-> Norm(15, 100),
             timeline |-> 12]]

\* CurrentMetrics with current_cac read from the wrong column.
CurrentMetricsWrongColumn(df) ==
    [cac |-> Mean(Column(df, "CLV")),
     clv |-> Mean(Column(df, "CLV")),
     roi |-> Mean(Column(df, "ROI")),
     frequency |-> Mean(IntColumn(df, "OrderFrequency")),
     aov |-> Mean(Column(df, "AvgOrderValue")),
     satisfaction |-> Mean(Column(df, "SatisfactionScore"))]

\* "Calculate current metrics": column means of the base table.
CurrentMetrics(df) ==
    [cac |-> Mean(Column(df, "CAC")),
     clv |-> Mean(Column(df, "CLV")),
     roi |-> Mean(Column(df, "ROI")),
     frequency |-> Mean(IntColumn(df, "OrderFrequency")),
     aov |-> Mean(Column(df, "AvgOrderValue")),
     satisfaction |-> Mean(Column(df, "SatisfactionScore"))]

\* Python's min(a, b): b only when b < a (so a NaN first argument stays).
PyMin(a, b) == IF RLess(b, a) THEN b ELSE a

\* project without the min(..., 5.0): the uplift is shown as it comes.
projectNoCap(current, selected_scenario) ==
    LET projected_cac ==
            RMul(current.cac, RSub(I(1), selected_scenario.cac_reduction))
        projected_frequency ==
            RMul(current.frequency,
                 RAdd(I(1), selected_scenario.frequency_increase))
        projected_aov ==
            RMul(current.aov, RAdd(I(1), selected_scenario.aov_increase))
        projected_clv == RMul(projected_aov, projected_frequency)
    IN [cac |-> projected_cac,
        frequency |-> projected_frequency,
        aov |-> projected_aov,
        clv |-> projected_clv,
        roi |-> RSub(projected_clv, projected_cac),
        satisfaction |-> RMul(current.satisfaction, Norm(11, 10))]

\* project with projected_clv built from the current order frequency.
projectStaleFrequency(current, selected_scenario) ==
    LET projected_cac ==
            RMul(current.cac, RSub(I(1), selected_scenario.cac_reduction))
        projected_frequency ==
            RMul(current.frequency,
                 RAdd(I(1), selected_scenario.frequency_increase))
        projected_aov ==
            RMul(current.aov, RAdd(I(1), selected_scenario.aov_increase))
        projected_clv == RMul(projected_aov, current.frequency)
    IN [cac |-> projected_cac,
        frequency |-> projected_frequency,
        aov |-> projected_aov,
        clv |-> projected_clv,
        roi |-> RSub(projected_clv, projected_cac),
        satisfaction |-> PyMin(RMul(current.satisfaction, Norm(11, 10)), I(5))]

\* "Calculate projected metrics"
project(current, selected_scenario) ==
    LET projected_cac ==
            RMul(current.cac, RSub(I(1), selected_scenario.cac_reduction))
        projected_frequency ==
            RMul(current.frequency,
                 RAdd(I(1), selected_scenario.frequency_increase))
        projected_aov ==
            RMul(current.aov, RAdd(I(1), selected_scenario.aov_increase))
        projected_clv == RMul(projected_aov, projected_frequency)
    IN [cac |-> projected_cac,
        frequency |-> projected_frequency,
        aov |-> projected_aov,
        clv |-> projected_clv,
        roi |-> RSub(projected_clv, projected_cac),
        satisfaction |-> PyMin(RMul(current.satisfaction, Norm(11, 10)), I(5))]

\* f"{x:.<digits>f}" for p = 10^digits: the nearest multiple of 1/p, halves
\* to the even one; nan and inf are written as such.
Format(x, p) ==
    IF x.k # "fin" THEN x ELSE Norm(RoundHalfEven(x.n * p, x.d), p)

\* The numbers of the st.metric headlines of the selected scenario, as they
\* are written (currency sign and separators left out).
Headline(projected) ==
    [cac |-> Format(projected.cac, 1),
     clv |-> Format(projected.clv, 1),
     roi |-> Format(projected.roi, 1),
     clv_cac |-> Format(RDiv(projected.clv, projected.cac), 100),
     frequency |-> Format(projected.frequency, 10),
     aov |-> Format(projected.aov, 1)]

\* comparison_row with proj_clv built from the current order frequency.
comparison_row_stale_frequency(current, scen_data) ==
    LET proj_cac == RMul(current.cac, RSub(I(1), scen_data.cac_reduction))
        proj_freq ==
            RMul(current.frequency, RAdd(I(1), scen_data.frequency_increase))
        proj_aov == RMul(current.aov, RAdd(I(1), scen_data.aov_increase))
        proj_clv == RMul(proj_aov, current.frequency)
        proj_roi == RSub(proj_clv, proj_cac)
    IN [proj_cac |-> proj_cac, proj_freq |-> proj_freq, proj_aov |-> proj_aov,
        proj_clv |-> proj_clv, proj_roi |-> proj_roi,
        CAC |-> Format(proj_cac, 1),
        CLV |-> Format(proj_clv, 1),
        ROI |-> Format(proj_roi, 1),
        CLV_CAC |-> Format(RDiv(proj_clv, proj_cac), 100),
        Order_Freq |-> Format(proj_freq, 10)]

\* One pass of the loop over scenarios_data.items(): the loop's locals and
\* the cells of the row it appends.
comparison_row(current, scen_data) ==
    LET proj_cac == RMul(current.cac, RSub(I(1), scen_data.cac_reduction))
        proj_freq ==
            RMul(current.frequency, RAdd(I(1), scen_data.frequency_increase))
        proj_aov == RMul(current.aov, RAdd(I(1), scen_data.aov_increase))
        proj_clv == RMul(proj_aov, proj_freq)
        proj_roi == RSub(proj_clv, proj_cac)
    IN [proj_cac |-> proj_cac, proj_freq |-> proj_freq, proj_aov |-> proj_aov,
        proj_clv |-> proj_clv, proj_roi |-> proj_roi,
        CAC |-> Format(proj_cac, 1),
        CLV |-> Format(proj_clv, 1),
        ROI |-> Format(proj_roi, 1),
        CLV_CAC |-> Format(RDiv(proj_clv, proj_cac), 100),
        Order_Freq |-> Format(proj_freq, 10)]

\* "All Scenarios Comparison": one row per preset, by the preset's name.
comparison_data(current) ==
    [s \in Scenarios |-> comparison_row(current, scenarios_data[s])]

\* quarter_progress counted from the loop index itself: 0, 1/4, 1/2, 3/4.
quarter_progress_from_zero(i) == Norm(i, 4)

\* quarter_progress = (i + 1) / 4 for the loop index i = 0..3
quarter_progress(i) == Norm(i + 1, 4)

\* The roadmap's quarter targets, by loop index.
roadmap(current, projected) ==
    [i \in 0..3 |->
        [quarter_cac |->
            RSub(current.cac, RMul(RSub(current.cac, projected.cac),
                                   quarter_progress(i))),
         quarter_clv |->
            RAdd(current.clv, RMul(RSub(projected.clv, current.clv),
                                   quarter_progress(i)))]]

\* What the page shows for these current and projected metrics.
ImpactView(scenario, current, projected) ==
    [page |-> "Simulated Impact", scenario |-> scenario,
     current |-> current,
     projected |-> projected,
     headline |-> Headline(projected),
     comparison_data |-> comparison_data(current),
     roadmap |-> roadmap(current, projected)]

\* Slide 7: the current metrics are computed once and everything else is
\* derived from them.
SimulatedImpact(df, scenario) ==
    [status |-> "ok", df |-> df,
     view |-> CHOOSE v \in
                 {ImpactView(scenario, current,
                             project(current, scenarios_data[scenario])) :
                      current \in {CurrentMetrics(df)}} : TRUE]

\* Slides 6 and 8 show fixed text only.
StaticPage(df, page) ==
    [status |-> "ok", df |-> df, view |-> [page |-> page]]

\* ------------------------------------------------------------------ export

Columns == <<"CustomerID", "City", "Zone", "CustomerSegment", "AvgOrderValue",
             "OrderFrequency", "ReturnedOrders", "SatisfactionScore",
             "CLV", "ReturnRate", "CAC", "ROI">>

NoExport == [done |-> FALSE, header |-> <<>>, lines |-> <<>>]

\* The columns pandas holds as float64.
FloatColumns == {"AvgOrderValue", "SatisfactionScore",
                 "CLV", "ReturnRate", "CAC", "ROI"}

\* A field without characters.
EmptyField == [k |-> "empty", n |-> 0, d |-> 1]

\* One cell as to_csv writes it: a missing value (NaN) becomes an empty
\* field (na_rep=''), any other value is written in full.
CsvCell(name, v) ==
    IF name \in FloatColumns /\ IsNaN(v) THEN EmptyField ELSE v

\* to_csv without index=False: the row labels 0, 1, ... are written as a
\* first column with an empty name.
to_csv_with_index(df) ==
    [done |-> TRUE, header |-> <<"">> \o Columns,
     lines |-> [i \in DOMAIN df |->
                  <<i - 1>> \o [j \in DOMAIN Columns |->
                                  CsvCell(Columns[j], df[i][Columns[j]])]]]

\* df.to_csv(index=False): a header line, then one line per row holding the
\* row's cells in column order.
to_csv(df) ==
    [done |-> TRUE, header |-> Columns,
     lines |-> [i \in DOMAIN df |->
                  [j \in DOMAIN Columns |->
                      CsvCell(Columns[j], df[i][Columns[j]])]]]

\* ------------------------------------------------------------- the script

\* The if/elif chain over the sidebar radio's value.
PageBranch(df, w) ==
    CASE w.page = "Introduction" -> Introduction(df)
      [] w.page = "Executive Summary" -> ExecutiveSummary(df)
      [] w.page = "Data Exploration / EDA" ->
            DataExploration(df, w.selected_city, w.selected_segment,
                            w.selected_zone)
      [] w.page = "Funnel Analysis" -> FunnelAnalysis(df)
      [] w.page = "ROI & Segmentation" -> RoiSegmentation(df, w.cac_map_custom)
      [] w.page = "Simulated Impact" -> SimulatedImpact(df, w.scenario)
      [] OTHER -> StaticPage(df, w.page)

\* One run of the script from "df = load_data()" on.  An exception that
\* leaves load_data ends the run there, before the sidebar.  A run that
\* st.stop() ends, or that an exception ends, never reaches the download
\* button; a page branch entered with df = None raises on its first use of
\* df.
Script(dfv, w) ==
    IF dfv.exception # "none"
    THEN [status |-> "error", df |-> dfv, view |-> NoView, exported |-> NoExport]
    ELSE IF StopGuard(dfv)
    THEN [status |-> "stopped", df |-> dfv, view |-> NoView, exported |-> NoExport]
    ELSE IF ~dfv.loaded
    THEN [status |-> "error", df |-> dfv, view |-> [page |-> w.page],
          exported |-> NoExport]
    ELSE LET r == PageBranch(dfv.rows, w)
         IN [status |-> r.status, df |-> Some(r.df), view |-> r.view,
             exported |-> IF r.status = "ok" /\ w.download
                          THEN to_csv(r.df) ELSE NoExport]

\* ------------------------------------------------------------------- state

VARIABLES
    file,              \* the CSV on disk
    cache,             \* the st.cache_data store of load_data
    page,              \* the sidebar radio ("none" before the first run)
    selected_city,     \* the EDA page's selectboxes
    selected_segment,
    selected_zone,
    cac_map_custom,    \* the ROI page's four number inputs
    scenario,          \* the Simulated Impact page's radio
    download,          \* the run was triggered by the download button
    status,            \* how the last run ended: ok, stopped, error
    df,                \* the module-level df when the last run ended
    view,              \* what the page branch of the last run computed
    exported,          \* the CSV the last run handed to the download button
    cac_supplied,      \* history: a CAC input was edited in this session
    call,              \* a direct call of project: its arguments and result
    reads              \* how many times load_data's body has run

vars == <<file, cache, page, selected_city, selected_segment, selected_zone,
          cac_map_custom, scenario, download, status, df, view, exported,
          cac_supplied, call, reads, other>>

NoProjection == [cac |-> Unset, frequency |-> Unset, aov |-> Unset,
                 clv |-> Unset, roi |-> Unset, satisfaction |-> Unset]

\* Largest number of evaluations in a row of direct calls.
MaxCalls == 3

\* The parts of a call's record that are filled in as calls are made: the
\* presets evaluated so far, in order, and what each preset gave the first
\* time; the headline numbers, comparison rows and quarter targets of the
\* last evaluation.
NoResults ==
    [log |-> <<>>, first |-> [s \in Scenarios |-> NoProjection],
     headline |-> <<>>, comparison_data |-> <<>>, roadmap |-> <<>>]

\* No direct call is in progress (the dashboard is running).
NoCall == [fn |-> "none", current |-> NoProjection, scenario |-> "none",
           done |-> FALSE, projected |-> NoProjection] @@ NoResults

\* The values typed into a CAC number input: its default, or one of these.
CacChoices == {0}

\* The widgets of a session that has not run the script yet.
NoWidgets ==
    [page |-> "none", selected_city |-> "All", selected_segment |-> "All",
     selected_zone |-> "All", cac_map_custom |-> cac_map,
     scenario |-> "Conservative", download |-> FALSE]

\* The second session before its first run.  pc: "idle" between runs,
\* "loaded" inside a run, after "df = load_data()" and before the page.
NoOther == [pc |-> "idle", w |-> NoWidgets, status |-> "none", df |-> None,
            view |-> NoView, exported |-> NoExport]

Init ==
    /\ file \in Files
    /\ cache = NoCache
    /\ page = "none"
    /\ selected_city = "All"
    /\ selected_segment = "All"
    /\ selected_zone = "All"
    /\ cac_map_custom = cac_map
    /\ scenario = "Conservative"
    /\ download = FALSE
    /\ status = "none"
    /\ df = None
    /\ view = NoView
    /\ exported = NoExport
    /\ cac_supplied = FALSE
    /\ call = NoCall
    /\ reads = 0
    /\ other = NoOther

\* One run of the whole script with these widget values.
Rerun(w) ==
    \E l \in {CachedLoad(cache, file)} :
    \E r \in {Script(l.val, w)} :
       /\ cache' = l.cache
       /\ page' = w.page
       /\ selected_city' = w.selected_city
       /\ selected_segment' = w.selected_segment
       /\ selected_zone' = w.selected_zone
       /\ cac_map_custom' = w.cac_map_custom
       /\ scenario' = w.scenario
       /\ download' = w.download
       /\ status' = r.status
       /\ df' = r.df
       /\ view' = r.view
       /\ exported' = r.exported
       /\ reads' = IF l.miss THEN reads + 1 ELSE reads
       /\ UNCHANGED <<file, call, other>>

\* A page's widgets as a first run of that page finds them: a widget that
\* was not drawn in the previous run starts from its default.
Defaults(p) ==
    [page |-> p, selected_city |-> "All", selected_segment |-> "All",
     selected_zone |-> "All", cac_map_custom |-> cac_map,
     scenario |-> "Conservative", download |-> FALSE]

\* The widgets as they stand, the button not pressed.
Widgets ==
    [page |-> page, selected_city |-> selected_city,
     selected_segment |-> selected_segment, selected_zone |-> selected_zone,
     cac_map_custom |-> cac_map_custom, scenario |-> scenario,
     download |-> FALSE]

\* The session's first run.
Open ==
    /\ call.fn = "none" /\ page = "none" /\ status = "none"
    /\ Rerun(Defaults("Introduction"))
    /\ UNCHANGED cac_supplied

\* The sidebar radio.
SelectPage(p) ==
    /\ page # "none" /\ df.exception = "none" /\ p # page
    /\ Rerun(Defaults(p))
    /\ UNCHANGED cac_supplied

\* The page's own widgets exist once its branch has run.
Drawn(p) == page = p /\ status \in {"ok", "error"}

SelectCity(c) ==
    /\ Drawn("Data Exploration / EDA")
    /\ c \in Options(df.rows, "City") /\ c # selected_city
    /\ Rerun([Widgets EXCEPT !.selected_city = c])
    /\ UNCHANGED cac_supplied

SelectSegment(s) ==
    /\ Drawn("Data Exploration / EDA")
    /\ s \in Options(df.rows, "CustomerSegment") /\ s # selected_segment
    /\ Rerun([Widgets EXCEPT !.selected_segment = s])
    /\ UNCHANGED cac_supplied

SelectZone(z) ==
    /\ Drawn("Data Exploration / EDA")
    /\ z \in Options(df.rows, "Zone") /\ z # selected_zone
    /\ Rerun([Widgets EXCEPT !.selected_zone = z])
    /\ UNCHANGED cac_supplied

SetCAC(seg, v) ==
    /\ Drawn("ROI & Segmentation")
    /\ v # cac_map_custom[seg]
    /\ Rerun([Widgets EXCEPT !.cac_map_custom[seg] = v])
    /\ cac_supplied' = TRUE

SelectScenario(s) ==
    /\ Drawn("Simulated Impact")
    /\ s # scenario
    /\ Rerun([Widgets EXCEPT !.scenario = s])
    /\ UNCHANGED cac_supplied

\* The sidebar's download button, drawn by a run that reached the end.
ClickDownload ==
    /\ status = "ok"
    /\ Rerun([Widgets EXCEPT !.download = TRUE])
    /\ UNCHANGED cac_supplied

Cities == {r.City : r \in SampleRows}

Zones == {r.Zone : r \in SampleRows}

SegmentValues == {r.CustomerSegment : r \in SampleRows}

Next ==
    \/ Open
    \/ \E p \in Pages : SelectPage(p)
    \/ \E c \in Cities \cup {"All"} : SelectCity(c)
    \/ \E s \in SegmentValues \cup {"All"} : SelectSegment(s)
    \/ \E z \in Zones \cup {"All"} : SelectZone(z)
    \/ \E seg \in Segments : \E v \in CacChoices \cup {cac_map[seg]} : SetCAC(seg, v)
    \/ \E s \in Scenarios : SelectScenario(s)
    \/ ClickDownload

Spec == Init /\ [][Next]_vars

\* ------------------------------------------------------------ two sessions

\* The table both sessions work on.
SharedTable ==
    RawTable(<<CHOOSE r \in SampleRows : r.CustomerSegment = "Premium",
               CHOOSE r \in SampleRows :
                   r.CustomerSegment = "Regular" /\ r.OrderFrequency = 0>>)

\* The widget values of the second session's runs.
OtherChoices ==
    {[Defaults("ROI & Segmentation") EXCEPT !.cac_map_custom["Regular"] = 100],
     [Defaults("Data Exploration / EDA") EXCEPT !.selected_city = "Indore"],
     [Defaults("Simulated Impact") EXCEPT !.scenario = "Optimistic"]}

InitTwo == Init /\ file = [kind |-> "csv", rows |-> SharedTable]

\* The second session starts a run: "df = load_data()", served by the
\* cache both sessions share.
OtherLoad(w) ==
    /\ call.fn = "none" /\ other.pc = "idle"
    /\ \E l \in {CachedLoad(cache, file)} :
          /\ cache' = l.cache
          /\ reads' = IF l.miss THEN reads + 1 ELSE reads
          /\ other' = [other EXCEPT !.pc = "loaded", !.w = w, !.df = l.val]
    /\ UNCHANGED <<file, page, selected_city, selected_segment, selected_zone,
                   cac_map_custom, scenario, download, status, df, view,
                   exported, cac_supplied, call>>

\* The second session's run goes on from the sidebar to the end.
OtherRender ==
    /\ other.pc = "loaded"
    /\ \E r \in {Script(other.df, other.w)} :
          other' = [pc |-> "idle", w |-> other.w, status |-> r.status,
                    df |-> r.df, view |-> r.view, exported |-> r.exported]
    /\ UNCHANGED <<file, cache, page, selected_city, selected_segment,
                   selected_zone, cac_map_custom, scenario, download, status,
                   df, view, exported, cac_supplied, call, reads>>

NextTwo ==
    \/ Next
    \/ \E w \in OtherChoices : OtherLoad(w)
    \/ OtherRender

SpecTwo == InitTwo /\ [][NextTwo]_vars

\* ------------------------------------------------- project, called directly

\* The current averages project is called with.
CurrentAverages ==
    {[cac |-> I(c), clv |-> I(1440), roi |-> I(1440 - c), frequency |-> f,
      aov |-> a, satisfaction |-> s] :
        c \in {0, 300, 500}, f \in {I(1), I(3), Norm(16, 5)},
        a \in {I(200), I(450)}, s \in {I(4), Norm(19, 4), I(5)}}

InitProject ==
    /\ file = [kind |-> "missing", rows |-> <<>>]
    /\ cache = NoCache
    /\ page = "none"
    /\ selected_city = "All"
    /\ selected_segment = "All"
    /\ selected_zone = "All"
    /\ cac_map_custom = cac_map
    /\ scenario = "Conservative"
    /\ download = FALSE
    /\ status = "none"
    /\ df = None
    /\ view = NoView
    /\ exported = NoExport
    /\ cac_supplied = FALSE
    /\ reads = 0
    /\ other = NoOther
    /\ \E c \in CurrentAverages :
          call = [fn |-> "project", current |-> c, scenario |-> "none",
                  done |-> FALSE, projected |-> NoProjection] @@ NoResults

\* The record of a call after the evaluation of preset s gave p.
Evaluated(s, p) ==
    [call EXCEPT !.scenario = s, !.done = TRUE, !.projected = p,
                 !.log = Append(call.log, s),
                 !.first[s] = IF call.first[s] = NoProjection THEN p
                              ELSE call.first[s],
                 !.headline = Headline(p),
                 !.comparison_data = comparison_data(call.current),
                 !.roadmap = roadmap(call.current, p)]

\* CallProject with the projection fed back: a later evaluation starts from
\* the CAC the one before projected.
CallProjectCompounding(s) ==
    /\ call.fn = "project" /\ Len(call.log) < MaxCalls
    /\ call' = Evaluated(s,
                    project(IF call.done
                            THEN [call.current EXCEPT !.cac = call.projected.cac]
                            ELSE call.current,
                            scenarios_data[s]))
    /\ UNCHANGED <<file, cache, page, selected_city, selected_segment,
                   selected_zone, cac_map_custom, scenario, download, status,
                   df, view, exported, cac_supplied, reads, other>>

\* The page's computation for preset s, from the current averages.
CallProject(s) ==
    /\ call.fn = "project" /\ Len(call.log) < MaxCalls
    /\ call' = Evaluated(s, project(call.current, scenarios_data[s]))
    /\ UNCHANGED <<file, cache, page, selected_city, selected_segment,
                   selected_zone, cac_map_custom, scenario, download, status,
                   df, view, exported, cac_supplied, reads, other>>

NextProject == \E s \in Scenarios : CallProject(s)

SpecProject == InitProject /\ [][NextProject]_vars

\* ------------------------------------------------------------------ claims

\* C1: when the data file is missing, load_data yields None and the run
\* halts at the stop guard: no page branch runs, nothing is aggregated or
\* projected, and nothing is exported.
C1_MissingFileHalts ==
    (file.kind = "missing" /\ status # "none") =>
        /\ df = None
        /\ status = "stopped"
        /\ view.page = "none"
        /\ ~exported.done

\* A session over a missing file in which the user went on to the ROI page.
C1_Witness ==
    file.kind = "missing" /\ status = "stopped" /\ page = "ROI & Segmentation"

\* C2: a record whose segment the CAC mapping does not hold is rejected:
\* neither the base table nor the ROI page's derived table ever holds a row
\* with a missing CAC or ROI.
C2_UnmappedSegmentRejected ==
    /\ df.loaded =>
          \A i \in DOMAIN df.rows :
              ~IsNaN(df.rows[i].CAC) /\ ~IsNaN(df.rows[i].ROI)
    /\ (page = "ROI & Segmentation" /\ status # "stopped") =>
          \A i \in DOMAIN view.df_custom :
              ~IsNaN(view.df_custom[i].CAC) /\ ~IsNaN(view.df_custom[i].ROI)

\* The drop-off rate, in percent, as the funnel contract defines it.
ContractDropoff(upper, lower) ==
    IF upper = 0 THEN I(0) ELSE RMul(Norm(upper - lower, upper), I(100))

\* C3: both drop-off rates equal (upper - lower) / upper (shown in percent)
\* and are 0 when the upper stage is empty, for every table.
C3_DropoffDefined ==
    (page = "Funnel Analysis" /\ status # "stopped") =>
        /\ status = "ok"
        /\ view.dropoff_1_2 =
              ContractDropoff(view.stage_1_order, view.stage_2_3_orders)
        /\ view.dropoff_2_3 =
              ContractDropoff(view.stage_2_3_orders, view.stage_4plus_orders)

\* C4: a row with OrderFrequency = 0 has ReturnRate NaN, and the mean of
\* ReturnRate in the summary statistics is taken over the other rows and is
\* finite when there is one.
C4_ZeroFrequencyExcluded ==
    /\ df.loaded =>
          \A i \in DOMAIN df.rows :
              df.rows[i].OrderFrequency = 0 => IsNaN(df.rows[i].ReturnRate)
    /\ (page = "Data Exploration / EDA" /\ status = "ok") =>
          LET zero == Filter(view.filtered_df,
                             Eq(view.filtered_df, "OrderFrequency", 0))
              defined == Len(view.filtered_df) - Len(zero)
          IN /\ view.describe_ReturnRate.count = defined
             /\ defined > 0 => IsFinite(view.describe_ReturnRate.mean)

\* C5: after any sequence of interactions the base table is the table
\* load_data produced: filters and custom CAC values write to copies.
C5_BaseTableNeverMutated ==
    status # "none" =>
        /\ df = load_data(file)
        /\ cache.filled => cache.val = load_data(file)

\* The ROI page holds a derived table whose CAC differs from the base table's.
C5_Witness ==
    /\ page = "ROI & Segmentation" /\ status = "ok"
    /\ cac_map_custom # cac_map
    /\ \E i \in DOMAIN df.rows : view.df_custom[i].CAC # df.rows[i].CAC

\* The mean CAC of the file's rows under the default mapping.
DefaultCacMean ==
    Mean([i \in DOMAIN file.rows |->
            MapSegment(cac_map, file.rows[i].CustomerSegment)])

\* C6 (as stated): opening Simulated Impact right after CAC values were
\* edited on the ROI page shows a current CAC regenerated from the edited
\* mapping.
C6_ProjectionUsesCustomCac ==
    [][(/\ page = "ROI & Segmentation" /\ status = "ok"
        /\ cac_map_custom # cac_map
        /\ page' = "Simulated Impact")
       => view'.current.cac = Mean(Column(view.df_custom, "CAC"))]_vars

\* C6 (amended): the scenario projection always starts from the base
\* table's mean CAC under the default mapping, whatever was entered on the
\* ROI page before.
C6_ProjectionUsesDefaultCac ==
    (page = "Simulated Impact" /\ status = "ok") =>
        /\ view.current.cac = DefaultCacMean
        /\ view.projected.cac =
              RMul(DefaultCacMean,
                   RSub(I(1), scenarios_data[scenario].cac_reduction))

\* Simulated Impact opened in a session that edited a CAC input before.
C6_Witness ==
    /\ page = "Simulated Impact" /\ status = "ok" /\ cac_supplied
    /\ IsFinite(view.current.cac)

\* C7: every stored CLV is the exact product AvgOrderValue x OrderFrequency,
\* in the base table and in the ROI page's derived table.
C7_CLVExact ==
    LET Exact(t) ==
            \A i \in DOMAIN t :
                /\ t[i].CLV.k = "fin"
                /\ t[i].CLV.n * file.rows[i].AvgOrderValue.d =
                      file.rows[i].AvgOrderValue.n
                          * file.rows[i].OrderFrequency * t[i].CLV.d
    IN /\ df.loaded => Exact(df.rows)
       /\ (page = "ROI & Segmentation" /\ status # "stopped") =>
              Exact(view.df_custom)

\* A stored CLV of 10.125, which two decimals cannot hold.
C7_Witness ==
    df.loaded /\ \E i \in DOMAIN df.rows : df.rows[i].CLV = Norm(81, 8)

\* C8: ROI = CLV - CAC with the CAC of the mapping in force: the default
\* mapping in the base table, the entered mapping in the ROI page's table.
C8_ROIIsCLVMinusCAC ==
    /\ df.loaded =>
          \A i \in DOMAIN df.rows :
              df.rows[i].ROI =
                  RSub(df.rows[i].CLV,
                       MapSegment(cac_map, df.rows[i].CustomerSegment))
    /\ (page = "ROI & Segmentation" /\ status # "stopped") =>
          \A i \in DOMAIN view.df_custom :
              view.df_custom[i].ROI =
                  RSub(view.df_custom[i].CLV,
                       MapSegment(cac_map_custom,
                                  view.df_custom[i].CustomerSegment))

\* A derived row whose ROI was recomputed away from its default-map value.
C8_Witness ==
    /\ page = "ROI & Segmentation" /\ status = "ok"
    /\ \E i \in DOMAIN view.df_custom :
          /\ IsFinite(view.df_custom[i].ROI)
          /\ view.df_custom[i].ROI # df.rows[i].ROI

\* C9: under the default mapping a record's CAC is 500, 300, 200 or 150 by
\* its segment alone.
C9_DefaultCacBySegment ==
    df.loaded =>
        \A i \in DOMAIN df.rows :
            LET r == df.rows[i]
            IN /\ r.CustomerSegment = "Premium" => r.CAC = I(500)
               /\ r.CustomerSegment = "Regular" => r.CAC = I(300)
               /\ r.CustomerSegment = "Budget" => r.CAC = I(200)
               /\ r.CustomerSegment = "Occasional" => r.CAC = I(150)

\* Two Regular records that differ in every other field, both with CAC 300.
C9_Witness ==
    /\ df.loaded
    /\ \E i, j \in DOMAIN df.rows :
          /\ df.rows[i].CustomerSegment = "Regular"
          /\ df.rows[j].CustomerSegment = "Regular"
          /\ df.rows[i].City # df.rows[j].City
          /\ df.rows[i].AvgOrderValue # df.rows[j].AvgOrderValue
          /\ df.rows[i].CAC = I(300) /\ df.rows[j].CAC = I(300)

\* C10: the projection formulas, for every preset and every set of current
\* averages, and the worked values 225, 4.48, 495 and 2217.6.
C10_ProjectionFormulas ==
    call.done =>
        LET c == call.current
            p == scenarios_data[call.scenario]
            q == call.projected
        IN /\ q.cac = RMul(c.cac, RSub(I(1), p.cac_reduction))
           /\ q.frequency = RMul(c.frequency, RAdd(I(1), p.frequency_increase))
           /\ q.aov = RMul(c.aov, RAdd(I(1), p.aov_increase))
           /\ q.clv = RMul(q.aov, q.frequency)
           /\ q.roi = RSub(q.clv, q.cac)
           /\ (c.cac = I(300) /\ p.cac_reduction = Norm(1, 4)) => q.cac = I(225)
           /\ (c.frequency = Norm(16, 5) /\ p.frequency_increase = Norm(2, 5))
                 => q.frequency = Norm(112, 25)
           /\ (c.aov = I(450) /\ p.aov_increase = Norm(1, 10)) => q.aov = I(495)
           /\ (/\ c.frequency = Norm(16, 5) /\ p.frequency_increase = Norm(2, 5)
               /\ c.aov = I(450) /\ p.aov_increase = Norm(1, 10))
                 => q.clv = Norm(11088, 5)

\* The Base Case projection of CAC 300, frequency 3.2 and order value 450.
C10_Witness ==
    /\ call.done /\ call.scenario = "Base Case"
    /\ call.current.cac = I(300)
    /\ call.current.frequency = Norm(16, 5)
    /\ call.current.aov = I(450)
    /\ call.projected.cac = I(225)
    /\ call.projected.clv = Norm(11088, 5)

\* C11: the projected satisfaction is min(current x 1.1, 5.0): it never
\* exceeds 5.0, it is the 10% uplift when the uplift is at most 5.0, and it
\* is 5.0 when the uplift is above.
C11_SatisfactionCapped ==
    call.done =>
        LET c == call.current.satisfaction
            q == call.projected.satisfaction
        IN /\ q.k = "fin"
           /\ q.n <= 5 * q.d
           /\ (11 * c.n <= 50 * c.d) => (q.n * 10 * c.d = 11 * c.n * q.d)
           /\ (11 * c.n > 50 * c.d) => q = I(5)

\* A current satisfaction of 4.75, whose uplift 5.225 is cut to 5.0.
C11_Witness ==
    /\ call.done
    /\ call.current.satisfaction = Norm(19, 4)
    /\ call.projected.satisfaction = I(5)

\* The number of rows of the file with exactly n orders.
RowsWith(n) ==
    Cardinality({i \in DOMAIN file.rows : file.rows[i].OrderFrequency = n})

\* The number of rows of the file with n orders or more.
RowsAtLeast(n) ==
    Cardinality({i \in DOMAIN file.rows : file.rows[i].OrderFrequency >= n})

\* C12: the funnel counts of a table: every row is registered, rows with
\* OrderFrequency >= 1 are active, rows with 2 or 3 are engaged, rows with
\* 4 or more are loyal; a row with 1 is active only, and no row is both
\* engaged and loyal.
C12_FunnelClassification ==
    (page = "Funnel Analysis" /\ status # "stopped") =>
        /\ view.total_customers = Len(file.rows)
        /\ view.stage_1_order = RowsAtLeast(1)
        /\ view.stage_2_3_orders = RowsWith(2) + RowsWith(3)
        /\ view.stage_4plus_orders = RowsAtLeast(4)
        /\ view.stage_1_order - view.stage_2_3_orders - view.stage_4plus_orders
              = RowsWith(1)

\* A table with one customer at 2 orders and one at 3: both are engaged.
C12_Witness ==
    /\ page = "Funnel Analysis" /\ status # "stopped"
    /\ RowsWith(2) = 1 /\ RowsWith(3) = 1
    /\ view.stage_2_3_orders = 2 /\ view.stage_4plus_orders = 0

\* C13: registered >= active >= 0 and engaged + loyal <= active, for every
\* table.
C13_FunnelCountsOrdered ==
    (page = "Funnel Analysis" /\ status # "stopped") =>
        /\ view.total_customers >= view.stage_1_order
        /\ view.stage_1_order >= 0
        /\ view.stage_2_3_orders + view.stage_4plus_orders
              <= view.stage_1_order

\* A table with an inactive customer and a loyal one: 2 >= 1 and 0 + 1 <= 1.
C13_Witness ==
    /\ page = "Funnel Analysis" /\ status # "stopped"
    /\ view.total_customers = 2 /\ view.stage_1_order = 1
    /\ view.stage_4plus_orders = 1

\* Every segment of the file is a key of the CAC mapping.
AllSegmentsMapped ==
    \A i \in DOMAIN file.rows : file.rows[i].CustomerSegment \in Segments

\* The customer counts of an aggregate, added up over its groups.
TotalCount(agg) ==
    RSum([i \in DOMAIN agg.index |-> I(agg.rows[agg.index[i]].CustomerID)])

\* C14: when every segment is mapped, the customer counts of the groups by
\* segment, by city and by zone each add up to the number of input rows.
C14_GroupCountsSumToRows ==
    (page = "ROI & Segmentation" /\ status # "stopped" /\ AllSegmentsMapped) =>
        /\ TotalCount(view.segment_roi) = I(Len(file.rows))
        /\ TotalCount(view.city_roi) = I(Len(file.rows))
        /\ TotalCount(view.zone_roi) = I(Len(file.rows))
        /\ Len(view.segment_roi.index) =
              Cardinality({file.rows[i].CustomerSegment : i \in DOMAIN file.rows})

\* Two segments in one city and zone: two groups of one by segment, one
\* group of two by city and by zone.
C14_Witness ==
    /\ page = "ROI & Segmentation" /\ status = "ok" /\ AllSegmentsMapped
    /\ Len(view.segment_roi.index) = 2
    /\ Len(view.city_roi.index) = 1 /\ Len(view.zone_roi.index) = 1
    /\ view.city_roi.rows[view.city_roi.index[1]].CustomerID = 2

\* The position of the first row of the file that belongs to a group.
FirstRow(key, g) ==
    CHOOSE i \in DOMAIN file.rows :
        /\ file.rows[i][key] = g
        /\ \A j \in 1..(i - 1) : file.rows[j][key] # g

\* C15: among the groups that tie for the best (worst) mean ROI, the one
\* highlighted as best segment, top city or worst segment is the one whose
\* first record comes earliest in the table.
C15_TiesByFirstOccurrence ==
    (page = "ROI & Segmentation" /\ status = "ok") =>
        /\ \A g \in DOMAIN view.segment_roi.rows :
              view.segment_roi.rows[g].ROI =
                  view.segment_roi.rows[view.best_roi_segment].ROI
              => FirstRow("CustomerSegment", view.best_roi_segment)
                    <= FirstRow("CustomerSegment", g)
        /\ \A g \in DOMAIN view.segment_roi.rows :
              view.segment_roi.rows[g].ROI =
                  view.segment_roi.rows[view.worst_roi_segment].ROI
              => FirstRow("CustomerSegment", view.worst_roi_segment)
                    <= FirstRow("CustomerSegment", g)
        /\ \A g \in DOMAIN view.city_roi.rows :
              view.city_roi.rows[g].ROI =
                  view.city_roi.rows[view.best_roi_city].ROI
              => FirstRow("City", view.best_roi_city) <= FirstRow("City", g)

\* C16: a file that is there but cannot be parsed, or that lacks a column
\* load_data reads, is reported like a missing one: load_data yields None
\* and the run halts at the stop guard; no exception leaves load_data.
C16_EveryLoadFailureHalts ==
    (file.kind \in {"malformed", "no_column"} /\ status # "none") =>
        /\ df = None
        /\ status = "stopped"

\* C17: the Funnel Analysis page finishes for every loaded table, with all
\* three conversion rates and both drop-off rates computed.
C17_FunnelNeverCrashes ==
    (page = "Funnel Analysis" /\ status # "stopped") =>
        /\ status = "ok"
        /\ \A r \in {view.conv_rate_1, view.conv_rate_2, view.conv_rate_3,
                      view.dropoff_1_2, view.dropoff_2_3} : r.k = "fin"

\* C18: once load_data's body has run, no later run of the script runs it
\* again: the cache keeps its value and every run's df is that value.
C18_ReadOnce ==
    [][reads >= 1 => (reads' = reads /\ cache' = cache /\ df' = cache.val)]_vars

\* The fourth run of a session or a later one, served from one read.
C18_Witness ==
    /\ reads = 1 /\ cache.filled /\ status = "ok"
    /\ page = "Simulated Impact" /\ scenario = "Optimistic"
    /\ df = cache.val /\ df.loaded

\* What one session shows, given its widget values w, the outcome st of its
\* last run, that run's view v and its table d: all of it follows from the
\* file and from w.
OwnParametersOnly(w, st, v, d) ==
    st = "ok" =>
        /\ d = load_data(file)
        /\ v.page = w.page
        /\ w.page = "ROI & Segmentation" =>
              \A i \in DOMAIN file.rows :
                  LET cac == MapSegment(w.cac_map_custom,
                                        file.rows[i].CustomerSegment)
                  IN /\ v.df_custom[i].CAC = cac
                     /\ v.df_custom[i].ROI = RSub(d.rows[i].CLV, cac)
                     /\ v.df_custom[i].ROI_Ratio = RDiv(d.rows[i].CLV, cac)
        /\ w.page = "Simulated Impact" =>
              /\ v.scenario = w.scenario
              /\ v.current.cac = DefaultCacMean
              /\ v.projected.cac =
                    RMul(DefaultCacMean,
                         RSub(I(1), scenarios_data[w.scenario].cac_reduction))
        /\ w.page = "Data Exploration / EDA" =>
              \A k \in DOMAIN v.filtered_df :
                  /\ w.selected_city \in {"All", v.filtered_df[k].City}
                  /\ w.selected_segment \in
                        {"All", v.filtered_df[k].CustomerSegment}
                  /\ w.selected_zone \in {"All", v.filtered_df[k].Zone}

\* C19: with two sessions interleaving their runs over one cached table,
\* what each session shows follows from the file and that session's own
\* widget values, and the cached table stays the one load_data produced.
C19_SessionsDoNotInterfere ==
    /\ OwnParametersOnly(Widgets, status, view, df)
    /\ other.pc = "idle" =>
          OwnParametersOnly(other.w, other.status, other.view, other.df)
    /\ cache.filled => cache.val = load_data(file)
    /\ reads <= 1

\* Both sessions on the ROI page, each with CAC values of its own.
C19_Witness ==
    /\ page = "ROI & Segmentation" /\ status = "ok"
    /\ other.pc = "idle" /\ other.status = "ok"
    /\ other.w.page = "ROI & Segmentation"
    /\ cac_map_custom # cac_map
    /\ cac_map_custom # other.w.cac_map_custom
    /\ view.df_custom # other.view.df_custom

\* Row i of the base table matches the three selections.
Matches(i) ==
    /\ selected_city \in {"All", df.rows[i].City}
    /\ selected_segment \in {"All", df.rows[i].CustomerSegment}
    /\ selected_zone \in {"All", df.rows[i].Zone}

\* C20: the table the EDA page aggregates holds exactly the base rows that
\* match every selected filter, in order, and the grouped means and the
\* summary count are those of these rows.
C20_FiltersBeforeAggregation ==
    (page = "Data Exploration / EDA" /\ status = "ok") =>
        LET t == view.filtered_df
            Of(g) == SelectSeq(t, LAMBDA r : r.CustomerSegment = g)
        IN /\ Len(t) = Cardinality({i \in DOMAIN df.rows : Matches(i)})
           /\ \A k \in DOMAIN t :
                 /\ Matches(t[k].CustomerID)
                 /\ t[k] = df.rows[t[k].CustomerID]
                 /\ \A j \in 1..(k - 1) : t[j].CustomerID < t[k].CustomerID
           /\ DOMAIN view.segment_metrics = {t[k].CustomerSegment : k \in DOMAIN t}
           /\ \A g \in DOMAIN view.segment_metrics :
                 /\ view.segment_metrics[g].CLV =
                       Round2(Mean(Column(Of(g), "CLV")))
                 /\ view.segment_metrics[g].AvgOrderValue =
                       Round2(Mean(Column(Of(g), "AvgOrderValue")))
                 /\ view.segment_metrics[g].OrderFrequency =
                       Round2(Mean(IntColumn(Of(g), "OrderFrequency")))
                 /\ view.segment_metrics[g].SatisfactionScore =
                       Round2(Mean(Column(Of(g), "SatisfactionScore")))
           /\ view.describe_ReturnRate.count =
                 Cardinality({i \in DOMAIN df.rows :
                                 Matches(i) /\ ~IsNaN(df.rows[i].ReturnRate)})

\* A city and a zone selected together: one of two rows is left.
C20_Witness ==
    /\ page = "Data Exploration / EDA" /\ status = "ok"
    /\ selected_city # "All" /\ selected_zone # "All"
    /\ Len(df.rows) = 2 /\ Len(view.filtered_df) = 1
    /\ \E i \in DOMAIN df.rows :
          df.rows[i].Zone = selected_zone /\ df.rows[i].City # selected_city

\* A value as a CSV field holds it: nothing for a missing value.
Written(x) == IF IsNaN(x) THEN EmptyField ELSE x

\* C21: the exported file has one line per input row, in input order, with
\* every input column as the file holds it and then CLV, ReturnRate, CAC
\* and ROI under the default CAC mapping, whatever page, filters or CAC
\* inputs the session shows.
C21_ExportIsDerivedBaseTable ==
    exported.done =>
        /\ exported.header =
              <<"CustomerID", "City", "Zone", "CustomerSegment",
                "AvgOrderValue", "OrderFrequency", "ReturnedOrders",
                "SatisfactionScore", "CLV", "ReturnRate", "CAC", "ROI">>
        /\ Len(exported.lines) = Len(file.rows)
        /\ \A i \in DOMAIN file.rows :
              LET r == file.rows[i]
                  line == exported.lines[i]
                  clv == RMul(r.AvgOrderValue, I(r.OrderFrequency))
                  cac == MapSegment(cac_map, r.CustomerSegment)
              IN /\ Len(line) = 12
                 /\ line[1] = r.CustomerID
                 /\ line[2] = r.City
                 /\ line[3] = r.Zone
                 /\ line[4] = r.CustomerSegment
                 /\ line[5] = r.AvgOrderValue
                 /\ line[6] = r.OrderFrequency
                 /\ line[7] = r.ReturnedOrders
                 /\ line[8] = r.SatisfactionScore
                 /\ line[9] = Written(clv)
                 /\ line[10] = Written(RDiv(I(r.ReturnedOrders),
                                            I(r.OrderFrequency)))
                 /\ line[11] = Written(cac)
                 /\ line[12] = Written(RSub(clv, cac))

\* An export from the ROI page while a CAC input differs from its default:
\* the exported CAC is not the one the page's table shows.
C21_Witness ==
    /\ exported.done /\ page = "ROI & Segmentation"
    /\ cac_map_custom # cac_map
    /\ Len(exported.lines) = 2
    /\ \E i \in DOMAIN exported.lines :
          /\ IsFinite(view.df_custom[i].CAC)
          /\ exported.lines[i][11] # view.df_custom[i].CAC

\* C22: a run of the ROI page whose four CAC inputs hold the default values
\* gives every record the CAC and the ROI of the base table, and a run with
\* the same input values as the run before gives the same derived table.
C22_DerivationIsPure ==
    [][(page' = "ROI & Segmentation" /\ status' \in {"ok", "error"}) =>
          /\ cac_map_custom' = cac_map =>
                \A i \in DOMAIN df'.rows :
                    /\ view'.df_custom[i].CAC = df'.rows[i].CAC
                    /\ view'.df_custom[i].ROI = df'.rows[i].ROI
          /\ (/\ page = "ROI & Segmentation" /\ status \in {"ok", "error"}
              /\ cac_map_custom' = cac_map_custom)
                => view'.df_custom = view.df_custom]_vars

\* The ROI page run again with unchanged inputs, which are back at their
\* defaults after an edit.
C22_Witness ==
    /\ page = "ROI & Segmentation" /\ status = "ok" /\ download
    /\ cac_supplied /\ cac_map_custom = cac_map
    /\ Len(df.rows) = 2
    /\ \A i \in DOMAIN df.rows : view.df_custom[i].ROI = df.rows[i].ROI

C28_ComparisonRowMatchesHeadline ==
    call.done =>
        LET row == call.comparison_data[call.scenario]
        IN /\ row.CAC = call.headline.cac
           /\ row.CLV = call.headline.clv
           /\ row.ROI = call.headline.roi
           /\ row.CLV_CAC = call.headline.clv_cac
           /\ row.Order_Freq = call.headline.frequency
           /\ row.proj_cac = call.projected.cac
           /\ row.proj_clv = call.projected.clv
           /\ row.proj_roi = call.projected.roi
           /\ row.proj_freq = call.projected.frequency

\* Optimistic selected for CAC 300, order value 450 and 3.2 orders: CLV
\* 2649.6 is shown as 2650 and CLV/CAC 13.5876... as 13.59 in both places.
C28_Witness ==
    /\ call.done /\ call.scenario = "Optimistic"
    /\ call.current.cac = I(300) /\ call.current.aov = I(450)
    /\ call.current.frequency = Norm(16, 5)
    /\ call.headline.clv = I(2650)
    /\ call.comparison_data["Optimistic"].CLV = I(2650)
    /\ call.comparison_data["Optimistic"].CLV_CAC = Norm(1359, 100)
    /\ call.comparison_data["Conservative"].CLV # I(2650)

\* C29: the quarter targets lie on the line from the current to the
\* projected value: quarter i of 4 is i/4 of the way, the fourth quarter's
\* targets are the projected CAC and CLV, and with a positive current CAC
\* each quarter's CAC target is below the one before.
C29_RoadmapInterpolates ==
    call.done =>
        LET c == call.current
            q == call.projected
        IN /\ DOMAIN call.roadmap = 0..3
           /\ \A i \in 1..4 :
                 /\ call.roadmap[i - 1].quarter_cac =
                       RSub(c.cac, RMul(RSub(c.cac, q.cac), Norm(i, 4)))
                 /\ call.roadmap[i - 1].quarter_clv =
                       RAdd(c.clv, RMul(RSub(q.clv, c.clv), Norm(i, 4)))
           /\ call.roadmap[3].quarter_cac = q.cac
           /\ call.roadmap[3].quarter_clv = q.clv
           /\ RLess(I(0), c.cac) =>
                 /\ RLess(call.roadmap[0].quarter_cac, c.cac)
                 /\ \A i \in 1..3 : RLess(call.roadmap[i].quarter_cac,
                                           call.roadmap[i - 1].quarter_cac)

\* Base Case from CAC 300: the targets are 281.25, 262.5, 243.75 and 225.
C29_Witness ==
    /\ call.done /\ call.scenario = "Base Case"
    /\ call.current.cac = I(300)
    /\ call.roadmap[0].quarter_cac = Norm(1125, 4)
    /\ call.roadmap[1].quarter_cac = Norm(525, 2)
    /\ call.roadmap[2].quarter_cac = Norm(975, 4)
    /\ call.roadmap[3].quarter_cac = I(225)

\* C30: for positive current CAC, order value and order frequency the
\* loop's projected CAC falls and its projected frequency, order value, CLV
\* and ROI rise from Conservative to Base Case to Optimistic.
C30_PresetsOrdered ==
    (/\ call.done
     /\ RLess(I(0), call.current.cac) /\ RLess(I(0), call.current.aov)
     /\ RLess(I(0), call.current.frequency)) =>
        \A pair \in {<<"Conservative", "Base Case">>,
                      <<"Base Case", "Optimistic">>} :
            LET lo == call.comparison_data[pair[1]]
                hi == call.comparison_data[pair[2]]
            IN /\ RLess(hi.proj_cac, lo.proj_cac)
               /\ RLess(lo.proj_freq, hi.proj_freq)
               /\ RLess(lo.proj_aov, hi.proj_aov)
               /\ RLess(lo.proj_clv, hi.proj_clv)
               /\ RLess(lo.proj_roi, hi.proj_roi)

\* CAC 500: the three rows project 425, 375 and 325.
C30_Witness ==
    /\ call.done /\ call.current.cac = I(500)
    /\ call.comparison_data["Conservative"].proj_cac = I(425)
    /\ call.comparison_data["Base Case"].proj_cac = I(375)
    /\ call.comparison_data["Optimistic"].proj_cac = I(325)
    /\ RLess(call.comparison_data["Conservative"].proj_roi,
             call.comparison_data["Optimistic"].proj_roi)

\* C24: with every segment mapped, whatever numbers the four CAC inputs
\* hold, each record's ROI ratio CLV / CAC is finite and so is each
\* segment's mean ROI ratio.
C24_RoiRatioFinite ==
    (page = "ROI & Segmentation" /\ status # "stopped" /\ AllSegmentsMapped) =>
        /\ \A i \in DOMAIN view.df_custom :
              IsFinite(view.df_custom[i].ROI_Ratio)
        /\ \A g \in DOMAIN view.segment_roi.rows :
              IsFinite(view.segment_roi.rows[g].ROI_Ratio)

\* The number of rows of the file that belong to segment g and have between
\* lo and hi orders.
SegmentRowsBetween(g, lo, hi) ==
    Cardinality({i \in DOMAIN file.rows :
                    /\ file.rows[i].CustomerSegment = g
                    /\ file.rows[i].OrderFrequency >= lo
                    /\ file.rows[i].OrderFrequency <= hi})

\* C25: each row of the funnel table by segment shows, as Engaged, the
\* number of the segment's customers with 2 or 3 orders and, as Loyal, the
\* number with 4 orders or more.
C25_SegmentFunnelCounts ==
    (page = "Funnel Analysis" /\ status = "ok") =>
        \A k \in DOMAIN view.segment_funnel :
            LET row == view.segment_funnel[k]
            IN /\ row.Engaged = I(SegmentRowsBetween(row.Segment, 2, 3))
               /\ row.Loyal =
                     I(Cardinality({i \in DOMAIN file.rows :
                           /\ file.rows[i].CustomerSegment = row.Segment
                           /\ file.rows[i].OrderFrequency >= 4}))

\* C26: on the Simulated Impact page, for every preset and every table whose
\* records all have a positive order value and a positive order frequency,
\* the projected CLV is not below the current mean CLV.
C26_ProjectedClvNotBelowCurrent ==
    (/\ page = "Simulated Impact" /\ status = "ok"
     /\ \A i \in DOMAIN file.rows :
           /\ RLess(I(0), file.rows[i].AvgOrderValue)
           /\ file.rows[i].OrderFrequency > 0) =>
        ~RLess(view.projected.clv, view.current.clv)

\* C27: for every table, the Focus City of the Executive Summary and the
\* Top City the ROI page shows with its CAC inputs at their defaults are
\* the same city: whenever one of the two pages names a city, the other
\* page names it too.
C27_FocusCityIsTopCity ==
    /\ (page = "Executive Summary" /\ status = "ok") =>
          LET roi == RoiSegmentation(df.rows, cac_map)
          IN roi.status = "ok" /\ roi.view.best_roi_city = view.top_city
    /\ (page = "ROI & Segmentation" /\ status = "ok"
           /\ cac_map_custom = cac_map) =>
          LET summary == ExecutiveSummary(df.rows)
          IN summary.status = "ok"
             /\ summary.view.top_city = view.best_roi_city

====
